---- MODULE Spec2Model ----
(***************************************************************************)
(* Model of src/bin/main.rs: the single control flow `main`, from boot     *)
(* through radio bring-up, the one HTTP fetch, the composition of the      *)
(* grayscale frame, the panel refresh and the final idle loop.             *)
(*                                                                         *)
(* The radio driver, the network stack, the socket and the panel driver    *)
(* are external crates: every result they hand back is an input of the     *)
(* step that calls them, drawn from the set of values the call's type      *)
(* allows.  A `.unwrap()` on an error, and the `loop {}` of line 108,      *)
(* stop the program where it stands (halted = TRUE, pc keeps the place).   *)
(***************************************************************************)
EXTENDS Integers, Naturals, Sequences, FiniteSets, TLC

\* ---------------------------------------------------------------- bounds
\* The radio answers "not connected" at most MaxPolls times in the wait loop.
MaxPolls == 3
\* The clock advances at most MaxStep seconds between two consecutive reads
\* of time::Instant::now().
MaxStep == 2
\* A scan returns at most MaxAps access points in the model (ScanMax in the code).
MaxAps == 2
\* A successful read returns at most MaxReadLen bytes in the model (BufferLen
\* in the code).
MaxReadLen == 1

\* ------------------------------------------------------ program constants
\* ScanConfig::default().with_max(10)
ScanMax == 10
\* Duration::from_secs(20): the read deadline
ReadTimeoutSecs == 20
\* Duration::from_secs(5): the period of the idle loop
IdlePeriodSecs == 5
\* let mut buffer = [0u8; 512]: the read buffer
BufferLen == 512

VARIABLES
    pc,              \* the statement main is about to execute
    halted,          \* TRUE once an unwrap panicked or line 108 spins
    lastCall,        \* the external operation the latest step invoked
    lastRes,         \* what that operation returned
    configRes,       \* result of controller.set_config (line 84)
    scanRes,         \* result of controller.scan_with_config (line 92)
    scanCount,       \* number of access points the scan returned; -1 before
    connectRes,      \* result of controller.connect (line 98)
    connRes,         \* result of the latest controller.is_connected
    statusChecks,    \* number of controller.is_connected calls so far
    pollsNotConnected, \* number of Ok(false) answers inside the wait loop
    ifaceUp,         \* result of the latest stack.is_iface_up
    sockPhase,       \* connection phase of the socket: none/idle/open/closed
    lastSockOp,      \* latest of open/write/flush/read/disconnect invoked
    openCalls,       \* number of socket.open calls
    disconnectCalls, \* number of socket.disconnect calls
    fetchOutcome,    \* how the fetch ended
    readLen,         \* `len` of line 145 while the loop body runs; -1 else
    now,             \* latest clock reading, in seconds since the latest
                     \* deadline computation (only differences are compared)
    deadline,        \* `deadline` of line 143, same origin; -1 before
    idleDeadline,    \* `deadline` of line 229, same origin; -1 before
    panelReady,      \* epd.begin returned Ok
    drawn,           \* drawing operations applied to display_gray, in order
    renderCalls,     \* number of epd.update_gray2_and_display calls
    workSinceSockOp, \* main called stack.work or socket.work since its latest
                     \* open/write/flush/read/disconnect (or since boot)
    pollSawConnected, \* the wait loop of lines 102-111 has seen Ok(true)
    fbWidth,         \* display_gray: pixels per row (0: planes not followed)
    fbHeight,        \* display_gray: rows
    highPlane,       \* display_gray.high_buffer(): packed bytes
    lowPlane,        \* display_gray.low_buffer(): packed bytes
    fbOps            \* operations applied to the planes so far, in order

radioVars == <<configRes, scanRes, scanCount, connectRes, connRes, statusChecks,
               pollsNotConnected, ifaceUp>>
sockVars  == <<sockPhase, lastSockOp, openCalls, disconnectCalls, fetchOutcome,
               readLen>>
clockVars == <<now, deadline, idleDeadline>>
panelVars == <<panelReady, drawn, renderCalls>>
histVars  == <<workSinceSockOp, pollSawConnected>>
mainVars  == <<pc, halted, lastCall, lastRes, radioVars, sockVars, clockVars,
               panelVars, histVars>>
fbVars    == <<fbWidth, fbHeight, highPlane, lowPlane, fbOps>>
vars == <<mainVars, fbVars>>

Results == {"ok", "err"}

\* The operations of the socket's life, and the work-advance functions.
SocketCalls == {"socket.open", "socket.write", "socket.flush", "socket.read",
                "socket.disconnect"}
WorkCalls == {"stack.work", "socket.work"}

\* ------------------------------------------------------------ phases (4.4)
\* The orchestrator's phase is a function of the place in main.
PhaseNames == <<"Init", "RadioUp", "AddressAcquired", "Fetching",
                "FetchDone", "Composing", "Rendered", "Idle">>

InitPcs      == {"init_peripherals", "radio_init", "wifi_new", "create_stack",
                 "set_power_saving", "set_config", "start", "scan", "connect",
                 "poll_connected"}
RadioUpPcs   == {"log_connected", "stack_work", "check_iface_up"}
AddressPcs   == {"get_socket", "socket_work", "open"}
FetchingPcs  == {"write", "flush", "set_deadline", "read", "check_deadline"}
FetchDonePcs == {"disconnect"}
ComposingPcs == {"spi_new", "spi_device", "epd_new", "epd_begin", "draw_text",
                 "draw_rect", "draw_bitmap", "draw_line", "render"}
RenderedPcs  == {"done"}
IdlePcs      == {"idle_set_deadline", "idle_check", "idle_work"}

Rank(p) ==
    IF p \in InitPcs THEN 1
    ELSE IF p \in RadioUpPcs THEN 2
    ELSE IF p \in AddressPcs THEN 3
    ELSE IF p \in FetchingPcs THEN 4
    ELSE IF p \in FetchDonePcs THEN 5
    ELSE IF p \in ComposingPcs THEN 6
    ELSE IF p \in RenderedPcs THEN 7
    ELSE 8

Phase == PhaseNames[Rank(pc)]

AllPcs == InitPcs \cup RadioUpPcs \cup AddressPcs \cup FetchingPcs
          \cup FetchDonePcs \cup ComposingPcs \cup RenderedPcs \cup IdlePcs

\* ------------------------------------------------------------------- Init
\* main at its entry.
MainInit ==
    /\ pc = "init_peripherals"
    /\ halted = FALSE
    /\ lastCall = "none"
    /\ lastRes = "none"
    /\ configRes = "none"
    /\ scanRes = "none"
    /\ scanCount = -1
    /\ connectRes = "none"
    /\ connRes = "none"
    /\ statusChecks = 0
    /\ pollsNotConnected = 0
    /\ ifaceUp = FALSE
    /\ sockPhase = "none"
    /\ lastSockOp = "none"
    /\ openCalls = 0
    /\ disconnectCalls = 0
    /\ fetchOutcome = "none"
    /\ readLen = -1
    /\ now = 0
    /\ deadline = -1
    /\ idleDeadline = -1
    /\ panelReady = FALSE
    /\ drawn = <<>>
    /\ renderCalls = 0
    /\ workSinceSockOp = FALSE
    /\ pollSawConnected = FALSE

\* Spec follows the calls main makes (the drawing calls are logged in
\* `drawn`); the content of the two planes is followed in PixSpec and
\* ComposeSpec below and is left out here.
FbNotFollowed ==
    /\ fbWidth = 0
    /\ fbHeight = 0
    /\ highPlane = <<>>
    /\ lowPlane = <<>>
    /\ fbOps = <<>>

Init == MainInit /\ FbNotFollowed

\* --------------------------------------------------------------- helpers
\* The step invokes the external operation `name`.
\* A statement at `from` that invokes `name`; the call cannot fail (or its
\* result is not inspected) and control goes on to `to`.
Called(name) ==
    /\ lastCall' = name
    /\ workSinceSockOp' = IF name \in WorkCalls THEN TRUE
                          ELSE IF name \in SocketCalls THEN FALSE
                          ELSE workSinceSockOp

Call(from, name, res, to) ==
    /\ pc = from
    /\ ~halted
    /\ Called(name)
    /\ lastRes' = res
    /\ pc' = to
    /\ halted' = FALSE
    /\ UNCHANGED <<pollSawConnected, fbVars>>

\* A statement `name(...).unwrap()` at `from`: Ok goes on to `to`, Err panics.
Unwrap(from, name, res, to) ==
    /\ pc = from
    /\ ~halted
    /\ Called(name)
    /\ lastRes' = res
    /\ IF res = "ok"
          THEN pc' = to /\ halted' = FALSE
          ELSE pc' = pc /\ halted' = TRUE
    /\ UNCHANGED <<pollSawConnected, fbVars>>

\* ------------------------------------------------- boot and radio bring-up
\* lines 41-51: logger, esp_hal::init, heap, timer group, esp_rtos::start
InitPeripherals ==
    /\ Call("init_peripherals", "esp_hal.init", "ok", "radio_init")
    /\ UNCHANGED <<radioVars, sockVars, clockVars, panelVars>>

\* line 53: esp_radio::init().unwrap()
RadioInit(res) ==
    /\ Unwrap("radio_init", "esp_radio.init", res, "wifi_new")
    /\ UNCHANGED <<radioVars, sockVars, clockVars, panelVars>>

\* lines 55-56: esp_radio::wifi::new(..).unwrap()
WifiNew(res) ==
    /\ Unwrap("wifi_new", "wifi.new", res, "create_stack")
    /\ UNCHANGED <<radioVars, sockVars, clockVars, panelVars>>

\* lines 58-73: create_interface, socket set with the DHCP socket, Stack::new
CreateStack ==
    /\ Call("create_stack", "Stack.new", "ok", "set_power_saving")
    /\ UNCHANGED <<radioVars, sockVars, clockVars, panelVars>>

\* lines 75-77: controller.set_power_saving(None).unwrap()
SetPowerSaving(res) ==
    /\ Unwrap("set_power_saving", "controller.set_power_saving", res, "set_config")
    /\ UNCHANGED <<radioVars, sockVars, clockVars, panelVars>>

\* lines 79-85: controller.set_config(&client_config); the result is logged
SetConfig(res) ==
    /\ Call("set_config", "controller.set_config", res, "start")
    /\ configRes' = res
    /\ UNCHANGED <<scanRes, scanCount, connectRes, connRes, statusChecks,
                   pollsNotConnected, ifaceUp, sockVars, clockVars, panelVars>>

\* lines 87-88: controller.start().unwrap(); is_started is logged
Start(res) ==
    /\ Unwrap("start", "controller.start", res, "scan")
    /\ UNCHANGED <<radioVars, sockVars, clockVars, panelVars>>

\* Variant of Scan: the result is only logged, like that of connect.
ScanLogged(res, naps) ==
    /\ naps <= ScanMax
    /\ Call("scan", "controller.scan", res, "connect")
    /\ scanRes' = res
    /\ scanCount' = IF res = "ok" THEN naps ELSE scanCount
    /\ UNCHANGED <<configRes, connectRes, connRes, statusChecks,
                   pollsNotConnected, ifaceUp, sockVars, clockVars, panelVars>>

\* Variant of Scan: an empty result list is scanned for again, the
\* connection is requested only once an access point was found.
ScanUntilFound(res, naps) ==
    /\ naps <= ScanMax
    /\ Unwrap("scan", "controller.scan", res,
              IF naps = 0 THEN "scan" ELSE "connect")
    /\ scanRes' = res
    /\ scanCount' = IF res = "ok" THEN naps ELSE scanCount
    /\ UNCHANGED <<configRes, connectRes, connRes, statusChecks,
                   pollsNotConnected, ifaceUp, sockVars, clockVars, panelVars>>

\* lines 90-95: controller.scan_with_config(with_max(10)).unwrap(); the
\* access points found (naps of them) are logged
Scan(res, naps) ==
    /\ naps <= ScanMax
    /\ Unwrap("scan", "controller.scan", res, "connect")
    /\ scanRes' = res
    /\ scanCount' = IF res = "ok" THEN naps ELSE scanCount
    /\ UNCHANGED <<configRes, connectRes, connRes, statusChecks,
                   pollsNotConnected, ifaceUp, sockVars, clockVars, panelVars>>

\* lines 97-98: capabilities and the result of controller.connect() are logged
Connect(res) ==
    /\ Call("connect", "controller.connect", res, "poll_connected")
    /\ connectRes' = res
    /\ UNCHANGED <<configRes, scanRes, scanCount, connRes, statusChecks,
                   pollsNotConnected, ifaceUp, sockVars, clockVars, panelVars>>

\* Variant of PollConnected: an Err is logged and the loop polls again.
PollConnectedRetries(res) ==
    /\ pc = "poll_connected"
    /\ ~halted
    /\ res = "false" => pollsNotConnected < MaxPolls
    /\ res = "err" => statusChecks < MaxPolls
    /\ Called("controller.is_connected")
    /\ pollSawConnected' = (pollSawConnected \/ res = "true")
    /\ lastRes' = res
    /\ connRes' = res
    /\ statusChecks' = statusChecks + 1
    /\ pollsNotConnected' = IF res = "false" THEN pollsNotConnected + 1
                                             ELSE pollsNotConnected
    /\ pc' = IF res = "true" THEN "log_connected" ELSE pc
    /\ halted' = FALSE
    /\ UNCHANGED <<configRes, scanRes, scanCount, connectRes, ifaceUp,
                   sockVars, clockVars, panelVars, fbVars>>

\* lines 102-111: one iteration of the wait loop.  Ok(true) breaks, Ok(false)
\* polls again, Err logs and spins in `loop {}` for ever.
PollConnected(res) ==
    /\ pc = "poll_connected"
    /\ ~halted
    /\ res = "false" => pollsNotConnected < MaxPolls
    /\ Called("controller.is_connected")
    /\ pollSawConnected' = (pollSawConnected \/ res = "true")
    /\ lastRes' = res
    /\ connRes' = res
    /\ statusChecks' = statusChecks + 1
    /\ pollsNotConnected' = IF res = "false" THEN pollsNotConnected + 1
                                             ELSE pollsNotConnected
    /\ pc' = IF res = "true" THEN "log_connected" ELSE pc
    /\ halted' = (res = "err")
    /\ UNCHANGED <<configRes, scanRes, scanCount, connectRes, ifaceUp,
                   sockVars, clockVars, panelVars, fbVars>>

\* line 112: info!("{:?}", controller.is_connected()); the result is logged
LogConnected(res) ==
    /\ Call("log_connected", "controller.is_connected", res, "stack_work")
    /\ connRes' = res
    /\ statusChecks' = statusChecks + 1
    /\ UNCHANGED <<configRes, scanRes, scanCount, connectRes, pollsNotConnected, ifaceUp,
                   sockVars, clockVars, panelVars>>

\* line 117: stack.work()
StackWork ==
    /\ Call("stack_work", "stack.work", "ok", "check_iface_up")
    /\ UNCHANGED <<radioVars, sockVars, clockVars, panelVars>>

\* Variant of CheckIfaceUp: the test is inverted, the loop ends while the
\* interface is down.
CheckIfaceUpInverted(up) ==
    /\ Call("check_iface_up", "stack.is_iface_up",
            IF up THEN "true" ELSE "false",
            IF ~up THEN "get_socket" ELSE "stack_work")
    /\ ifaceUp' = up
    /\ UNCHANGED <<configRes, scanRes, scanCount, connectRes, connRes,
                   statusChecks, pollsNotConnected, sockVars, clockVars,
                   panelVars>>

\* Variant of CheckIfaceUp: while the interface is down the check is
\* repeated without a work tick in between.
CheckIfaceUpNoTick(up) ==
    /\ Call("check_iface_up", "stack.is_iface_up",
            IF up THEN "true" ELSE "false",
            IF up THEN "get_socket" ELSE "check_iface_up")
    /\ ifaceUp' = up
    /\ UNCHANGED <<configRes, scanRes, scanCount, connectRes, connRes,
                   statusChecks, pollsNotConnected, sockVars, clockVars,
                   panelVars>>

\* lines 119-122: if stack.is_iface_up() { log the address; break }
CheckIfaceUp(up) ==
    /\ Call("check_iface_up", "stack.is_iface_up",
            IF up THEN "true" ELSE "false",
            IF up THEN "get_socket" ELSE "stack_work")
    /\ ifaceUp' = up
    /\ UNCHANGED <<configRes, scanRes, scanCount, connectRes, connRes, statusChecks,
                   pollsNotConnected, sockVars, clockVars, panelVars>>

\* ------------------------------------------------------------ the fetch
\* lines 125-129: the two 1536-byte buffers and stack.get_socket
GetSocket ==
    /\ Call("get_socket", "stack.get_socket", "ok", "socket_work")
    /\ sockPhase' = "idle"
    /\ UNCHANGED <<radioVars, lastSockOp, openCalls, disconnectCalls,
                   fetchOutcome, readLen, clockVars, panelVars>>

\* lines 131-132: socket.work()
SocketWork ==
    /\ Call("socket_work", "socket.work", "ok", "open")
    /\ UNCHANGED <<radioVars, sockVars, clockVars, panelVars>>

\* Variant of Open: an Err is logged and the fetch is given up, control goes
\* straight on to the display set-up.
OpenAbsorbed(res) ==
    /\ Call("open", "socket.open", res, IF res = "ok" THEN "write" ELSE "spi_new")
    /\ lastSockOp' = "open"
    /\ openCalls' = openCalls + 1
    /\ sockPhase' = IF res = "ok" THEN "open" ELSE sockPhase
    /\ fetchOutcome' = IF res = "ok" THEN fetchOutcome ELSE "ConnectError"
    /\ UNCHANGED <<radioVars, disconnectCalls, readLen, clockVars, panelVars>>

\* Variant of Open: after a successful open main ticks the stack once
\* (socket.work) before it goes on to write.
OpenThenWork(res) ==
    /\ pc = "open"
    /\ ~halted
    /\ lastCall' = IF res = "ok" THEN "socket.work" ELSE "socket.open"
    /\ workSinceSockOp' = (res = "ok")
    /\ lastRes' = res
    /\ IF res = "ok"
          THEN pc' = "write" /\ halted' = FALSE
          ELSE pc' = pc /\ halted' = TRUE
    /\ lastSockOp' = "open"
    /\ openCalls' = openCalls + 1
    /\ sockPhase' = IF res = "ok" THEN "open" ELSE sockPhase
    /\ fetchOutcome' = IF res = "ok" THEN fetchOutcome ELSE "ConnectError"
    /\ UNCHANGED <<radioVars, disconnectCalls, readLen, clockVars, panelVars,
                   pollSawConnected, fbVars>>

\* lines 134-136: socket.open(142.250.185.115, 80).unwrap()
Open(res) ==
    /\ Unwrap("open", "socket.open", res, "write")
    /\ lastSockOp' = "open"
    /\ openCalls' = openCalls + 1
    /\ sockPhase' = IF res = "ok" THEN "open" ELSE sockPhase
    /\ fetchOutcome' = IF res = "ok" THEN fetchOutcome ELSE "ConnectError"
    /\ UNCHANGED <<radioVars, disconnectCalls, readLen, clockVars, panelVars>>

\* lines 138-140: socket.write(b"GET / HTTP/1.0 ...").unwrap()
SocketWrite(res) ==
    /\ Unwrap("write", "socket.write", res, "flush")
    /\ lastSockOp' = "write"
    /\ fetchOutcome' = IF res = "ok" THEN fetchOutcome ELSE "WriteError"
    /\ UNCHANGED <<radioVars, sockPhase, openCalls, disconnectCalls, readLen,
                   clockVars, panelVars>>

\* line 141: socket.flush().unwrap()
Flush(res) ==
    /\ Unwrap("flush", "socket.flush", res, "set_deadline")
    /\ lastSockOp' = "flush"
    /\ fetchOutcome' = IF res = "ok" THEN fetchOutcome ELSE "FlushError"
    /\ UNCHANGED <<radioVars, sockPhase, openCalls, disconnectCalls, readLen,
                   clockVars, panelVars>>

\* lines 143-144: let deadline = time::Instant::now() + Duration::from_secs(20)
SetDeadline ==
    /\ Call("set_deadline", "Instant.now", "ok", "read")
    /\ now' = 0
    /\ deadline' = 0 + ReadTimeoutSecs
    /\ UNCHANGED <<radioVars, sockVars, idleDeadline, panelVars>>

\* Variant of SocketRead: the result is unwrapped, an Err panics.
SocketReadUnwrapped(res, len) ==
    /\ len <= BufferLen
    /\ res = "err" => len = 0
    /\ Unwrap("read", "socket.read", res, "check_deadline")
    /\ lastSockOp' = "read"
    /\ fetchOutcome' = IF res = "ok" THEN fetchOutcome ELSE "ReadError"
    /\ readLen' = IF res = "ok" THEN len ELSE -1
    /\ UNCHANGED <<radioVars, sockPhase, openCalls, disconnectCalls,
                   clockVars, panelVars>>

\* lines 145-147: while let Ok(len) = socket.read(&mut buffer) { log it ...
\* An Err ends the loop; Ok(len), len = 0 included, enters the body, which
\* logs buffer[..len].  (An Err carries no length: len is 0 for it here.)
SocketRead(res, len) ==
    /\ len <= BufferLen
    /\ res = "err" => len = 0
    /\ Call("read", "socket.read", res,
            IF res = "ok" THEN "check_deadline" ELSE "disconnect")
    /\ lastSockOp' = "read"
    /\ fetchOutcome' = IF res = "ok" THEN fetchOutcome ELSE "ReadError"
    /\ readLen' = IF res = "ok" THEN len ELSE -1
    /\ UNCHANGED <<radioVars, sockPhase, openCalls, disconnectCalls,
                   clockVars, panelVars>>

\* Variant of CheckDeadline: the deadline is computed afresh in every
\* iteration (now + 20 s), so it is never passed.
CheckDeadlineRecomputed(d) ==
    /\ Call("check_deadline", "Instant.now", "ok",
            IF 0 > ReadTimeoutSecs THEN "disconnect" ELSE "read")
    /\ now' = 0
    /\ deadline' = 0 + ReadTimeoutSecs
    /\ readLen' = -1
    /\ UNCHANGED <<radioVars, sockPhase, lastSockOp, openCalls, disconnectCalls,
                   fetchOutcome, idleDeadline, panelVars>>

\* Variant of CheckDeadline: the body of the loop also ticks the stack
\* (socket.work) before the next read.
CheckDeadlineTicks(d) ==
    /\ Call("check_deadline", "socket.work", "ok",
            IF now + d > deadline THEN "disconnect" ELSE "read")
    /\ now' = now + d
    /\ fetchOutcome' = IF now + d > deadline THEN "Timeout" ELSE fetchOutcome
    /\ readLen' = -1
    /\ UNCHANGED <<radioVars, sockPhase, lastSockOp, openCalls, disconnectCalls,
                   deadline, idleDeadline, panelVars>>

\* Variant of CheckDeadline: an empty read ends the loop as well.
CheckDeadlineStopsOnEmpty(d) ==
    /\ Call("check_deadline", "Instant.now", "ok",
            IF now + d > deadline \/ readLen = 0 THEN "disconnect" ELSE "read")
    /\ now' = now + d
    /\ fetchOutcome' = IF now + d > deadline THEN "Timeout" ELSE fetchOutcome
    /\ readLen' = -1
    /\ UNCHANGED <<radioVars, sockPhase, lastSockOp, openCalls, disconnectCalls,
                   deadline, idleDeadline, panelVars>>

\* lines 149-152: if time::Instant::now() > deadline { info!("Timeout"); break }
\* d seconds have passed since the previous reading of the clock.  The body
\* of the loop ends here, and `len` with it.
CheckDeadline(d) ==
    /\ Call("check_deadline", "Instant.now", "ok",
            IF now + d > deadline THEN "disconnect" ELSE "read")
    /\ now' = now + d
    /\ fetchOutcome' = IF now + d > deadline THEN "Timeout" ELSE fetchOutcome
    /\ readLen' = -1
    /\ UNCHANGED <<radioVars, sockPhase, lastSockOp, openCalls, disconnectCalls,
                   deadline, idleDeadline, panelVars>>

\* line 155: socket.disconnect()
Disconnect ==
    /\ Call("disconnect", "socket.disconnect", "ok", "spi_new")
    /\ lastSockOp' = "disconnect"
    /\ disconnectCalls' = disconnectCalls + 1
    /\ sockPhase' = "closed"
    /\ UNCHANGED <<radioVars, openCalls, fetchOutcome, readLen, clockVars,
                   panelVars>>

\* ------------------------------------------------- composition and render
\* lines 158-168: Spi::new(SPI2, 4 MHz).unwrap() and its pins
SpiNew(res) ==
    /\ Unwrap("spi_new", "Spi.new", res, "spi_device")
    /\ UNCHANGED <<radioVars, sockVars, clockVars, panelVars>>

\* lines 169-173: busy/rst/dc/cs pins, ExclusiveDevice::new(..).unwrap()
SpiDevice(res) ==
    /\ Unwrap("spi_device", "ExclusiveDevice.new", res, "epd_new")
    /\ UNCHANGED <<radioVars, sockVars, clockVars, panelVars>>

\* lines 176-177: ThinkInk2in9Gray2::new(..).unwrap(), Display2in9Gray2::new()
EpdNew(res) ==
    /\ Unwrap("epd_new", "epd.new", res, "epd_begin")
    /\ UNCHANGED <<radioVars, sockVars, clockVars, panelVars>>

\* line 180: epd.begin(&mut Delay::new()).unwrap()
EpdBegin(res) ==
    /\ Unwrap("epd_begin", "epd.begin", res, "draw_text")
    /\ panelReady' = (res = "ok")
    /\ UNCHANGED <<radioVars, sockVars, clockVars, drawn, renderCalls>>

\* A drawing statement `shape.draw(&mut display_gray).unwrap()`
Draw(from, shape, res, to) ==
    /\ Unwrap(from, "draw", res, to)
    /\ drawn' = IF res = "ok" THEN Append(drawn, shape) ELSE drawn
    /\ UNCHANGED <<radioVars, sockVars, clockVars, panelReady, renderCalls>>

\* lines 182-193: Text "Hello from Gray2 Rust!" at (10,15), black
DrawText(res) == Draw("draw_text", "text", res, "draw_rect")

\* lines 195-199: 25x25 rectangle at (50,50) filled with Gray2::new(0x01)
DrawRect(res) == Draw("draw_rect", "rect", res, "draw_bitmap")

\* lines 201-209: ferris.bin, width 100, at (100,20), binary draw target
DrawBitmap(res) == Draw("draw_bitmap", "bitmap", res, "draw_line")

\* Variant of DrawLine: the statement that draws the line is left out.
DrawLineMissing(res) ==
    /\ Call("draw_line", "none", "ok", "render")
    /\ UNCHANGED <<radioVars, sockVars, clockVars, panelVars>>

\* lines 211-215: line (200,20)-(240,107), black stroke of width 2
DrawLine(res) == Draw("draw_line", "line", res, "render")

\* Variant of Render: a failed refresh is tried again.
RenderRetried(res) ==
    /\ Call("render", "epd.update_gray2_and_display", res,
            IF res = "ok" THEN "done" ELSE "render")
    /\ renderCalls' = renderCalls + 1
    /\ UNCHANGED <<radioVars, sockVars, clockVars, panelReady, drawn>>

\* lines 217-224: epd.update_gray2_and_display(high, low, delay).unwrap()
Render(res) ==
    /\ Unwrap("render", "epd.update_gray2_and_display", res, "done")
    /\ renderCalls' = renderCalls + 1
    /\ UNCHANGED <<radioVars, sockVars, clockVars, panelReady, drawn>>

\* lines 226-227: info!("Done")
Done ==
    /\ Call("done", "info", "ok", "idle_set_deadline")
    /\ UNCHANGED <<radioVars, sockVars, clockVars, panelVars>>

\* --------------------------------------------------------- the idle loop
\* lines 228-229: loop { let deadline = time::Instant::now() + 5 s
IdleSetDeadline ==
    /\ Call("idle_set_deadline", "Instant.now", "ok", "idle_check")
    /\ now' = 0
    /\ idleDeadline' = 0 + IdlePeriodSecs
    /\ UNCHANGED <<radioVars, sockVars, deadline, panelVars>>

\* Variant of IdleCheck: the comparison is inverted (now > deadline).
IdleCheckInverted(d) ==
    /\ Call("idle_check", "Instant.now", "ok",
            IF now + d > idleDeadline THEN "idle_work" ELSE "idle_set_deadline")
    /\ now' = now + d
    /\ UNCHANGED <<radioVars, sockVars, deadline, idleDeadline, panelVars>>

\* line 230: while time::Instant::now() < deadline
IdleCheck(d) ==
    /\ Call("idle_check", "Instant.now", "ok",
            IF now + d < idleDeadline THEN "idle_work" ELSE "idle_set_deadline")
    /\ now' = now + d
    /\ UNCHANGED <<radioVars, sockVars, deadline, idleDeadline, panelVars>>

\* Variant of IdleWork: the idle loop drains the socket with read.
IdleWorkReads ==
    /\ Call("idle_work", "socket.read", "ok", "idle_check")
    /\ lastSockOp' = "read"
    /\ UNCHANGED <<radioVars, sockPhase, openCalls, disconnectCalls, readLen,
                   fetchOutcome, clockVars, panelVars>>

\* line 231: socket.work()
IdleWork ==
    /\ Call("idle_work", "socket.work", "ok", "idle_check")
    /\ UNCHANGED <<radioVars, sockVars, clockVars, panelVars>>

\* ------------------------------------------------------------------ Next
Next ==
    \/ InitPeripherals
    \/ \E res \in Results : RadioInit(res)
    \/ \E res \in Results : WifiNew(res)
    \/ CreateStack
    \/ \E res \in Results : SetPowerSaving(res)
    \/ \E res \in Results : SetConfig(res)
    \/ \E res \in Results : Start(res)
    \/ \E res \in Results, naps \in 0..MaxAps : Scan(res, naps)
    \/ \E res \in Results : Connect(res)
    \/ \E res \in {"true", "false", "err"} : PollConnected(res)
    \/ \E res \in {"true", "false", "err"} : LogConnected(res)
    \/ StackWork
    \/ \E up \in BOOLEAN : CheckIfaceUp(up)
    \/ GetSocket
    \/ SocketWork
    \/ \E res \in Results : Open(res)
    \/ \E res \in Results : SocketWrite(res)
    \/ \E res \in Results : Flush(res)
    \/ SetDeadline
    \/ \E res \in Results, len \in 0..MaxReadLen : SocketRead(res, len)
    \/ \E d \in 0..MaxStep : CheckDeadline(d)
    \/ Disconnect
    \/ \E res \in Results : SpiNew(res)
    \/ \E res \in Results : SpiDevice(res)
    \/ \E res \in Results : EpdNew(res)
    \/ \E res \in Results : EpdBegin(res)
    \/ \E res \in Results : DrawText(res)
    \/ \E res \in Results : DrawRect(res)
    \/ \E res \in Results : DrawBitmap(res)
    \/ \E res \in Results : DrawLine(res)
    \/ \E res \in Results : Render(res)
    \/ Done
    \/ IdleSetDeadline
    \/ \E d \in 0..MaxStep : IdleCheck(d)
    \/ IdleWork

Spec == Init /\ [][Next]_vars

\* The clock moves on while the read loop polls.
ClockAdvances == \E d \in 1..MaxStep : CheckDeadline(d)

\* Every call returns and main keeps running (one control flow, no
\* scheduler); the clock does not stand still for ever.
FairSpec == Spec /\ WF_vars(Next) /\ SF_vars(ClockAdvances)

TypeOK ==
    /\ pc \in AllPcs
    /\ halted \in BOOLEAN
    /\ configRes \in Results \cup {"none"}
    /\ scanRes \in Results \cup {"none"}
    /\ scanCount \in -1..ScanMax
    /\ connectRes \in Results \cup {"none"}
    /\ connRes \in {"none", "true", "false", "err"}
    /\ statusChecks \in 0..(MaxPolls + 2)
    /\ pollsNotConnected \in 0..MaxPolls
    /\ ifaceUp \in BOOLEAN
    /\ sockPhase \in {"none", "idle", "open", "closed"}
    /\ lastSockOp \in {"none", "open", "write", "flush", "read", "disconnect"}
    /\ openCalls \in 0..1
    /\ disconnectCalls \in 0..1
    /\ fetchOutcome \in {"none", "ConnectError", "WriteError", "FlushError",
                         "ReadError", "Timeout"}
    /\ readLen \in -1..BufferLen
    /\ workSinceSockOp \in BOOLEAN
    /\ pollSawConnected \in BOOLEAN
    /\ now \in 0..(ReadTimeoutSecs + MaxStep)
    /\ deadline \in {-1, ReadTimeoutSecs}
    /\ idleDeadline \in {-1, IdlePeriodSecs}
    /\ panelReady \in BOOLEAN
    /\ renderCalls \in 0..1

\* ===================================================== the two planes
\* display_gray (Display2in9Gray2, line 177) is the two-plane framebuffer the
\* drawing calls of lines 187-215 write and the refresh of lines 219-224
\* reads through high_buffer() and low_buffer().  Its layout is the one of
\* the data model: two planes of one bit per pixel, row-major, eight pixels
\* to a byte; the level of a pixel is 2 * high bit + low bit.

\* Bytes of one plane of a w x h frame.
PlaneBytes(w, h) == (w * h + 7) \div 8

\* A plane with every bit clear (fill = 0) or every bit set (fill = 255).
\* A new frame is blank: both planes are filled alike, with the panel's
\* polarity deciding which of the two fills is the blank one.
AllSet == 255
BlankFills == {0, AllSet}
BlankPlane(w, h, fill) == [i \in 1..PlaneBytes(w, h) |-> fill]

InBounds(w, h, x, y) == x >= 0 /\ x < w /\ y >= 0 /\ y < h

\* Row-major bit number of pixel (x, y), the byte holding it (sequences
\* start at 1) and the weight of its bit in that byte (leftmost pixel in the
\* top bit).
PixelIndex(w, x, y) == y * w + x
ByteOf(i) == (i \div 8) + 1
BitMask(i) == 2 ^ (7 - (i % 8))

GetBit(plane, i) == (plane[ByteOf(i)] \div BitMask(i)) % 2

SetBit(plane, i, b) ==
    [plane EXCEPT ![ByteOf(i)] = @ - GetBit(plane, i) * BitMask(i)
                                   + b * BitMask(i)]

\* The level read back from the two planes: (highBit << 1) | lowBit.
LevelAt(high, low, w, x, y) ==
    2 * GetBit(high, PixelIndex(w, x, y)) + GetBit(low, PixelIndex(w, x, y))

\* Variant of SetPixel: the two bits of the level go to the wrong planes.
SetPixelSwapped(high, low, w, h, x, y, g) ==
    IF InBounds(w, h, x, y)
       THEN <<SetBit(high, PixelIndex(w, x, y), g % 2),
              SetBit(low, PixelIndex(w, x, y), g \div 2)>>
       ELSE <<high, low>>

\* Writing level g to pixel (x, y): the bit of each plane is set or cleared;
\* a pixel outside the frame is clipped.  The result is <<high, low>>.
SetPixel(high, low, w, h, x, y, g) ==
    IF InBounds(w, h, x, y)
       THEN <<SetBit(high, PixelIndex(w, x, y), g \div 2),
              SetBit(low, PixelIndex(w, x, y), g % 2)>>
       ELSE <<high, low>>

Levels == 0..3

\* ------------------------------------------------ PixSpec: pixel writes
\* Frame of the pixel-write specification, and the number of writes.
PixWidth == 3
PixHeight == 3
MaxWrites == 2

PixInit ==
    /\ MainInit
    /\ fbWidth = PixWidth
    /\ fbHeight = PixHeight
    /\ \E fill \in BlankFills :
          /\ highPlane = BlankPlane(PixWidth, PixHeight, fill)
          /\ lowPlane = BlankPlane(PixWidth, PixHeight, fill)
    /\ fbOps = <<>>

\* One pixel written by a drawing call (x = fbWidth, y = fbHeight: clipped).
PixWrite(x, y, g) ==
    /\ Len(fbOps) < MaxWrites
    /\ LET r == SetPixel(highPlane, lowPlane, fbWidth, fbHeight, x, y, g)
       IN  highPlane' = r[1] /\ lowPlane' = r[2]
    /\ fbOps' = Append(fbOps, "pixel")
    /\ UNCHANGED <<mainVars, fbWidth, fbHeight>>

PixNext ==
    \E x \in 0..fbWidth, y \in 0..fbHeight, g \in Levels : PixWrite(x, y, g)

PixSpec == PixInit /\ [][PixNext]_vars

\* ----------------------------------------- ComposeSpec: the composition
\* The panel-native resolution, in either orientation.
PanelLong == 296
PanelShort == 128

\* The arguments of the four drawing calls (lines 182-215).
TextX == 10
TextY == 15
TextChars == 22
FontWidth == 7
FontHeight == 14
GrayBlack == 0
RectX == 50
RectY == 50
RectW == 25
RectH == 25
RectLevel == 1
BitmapWidth == 100
BitmapX == 100
BitmapY == 20
LineX0 == 200
LineY0 == 20
LineX1 == 240
LineY1 == 107
StrokeWidth == 2

\* A box is <<x0, y0, x1, y1>>, both corners included.
RectBox == <<RectX, RectY, RectX + RectW - 1, RectY + RectH - 1>>

\* The cells of the glyph run: TextChars cells of FontWidth from the origin,
\* within one cell height above and below the origin's row.
TextBox ==
    <<TextX, TextY - FontHeight + 1,
      TextX + TextChars * FontWidth - 1, TextY + FontHeight - 1>>

\* The rows of the image reach down to the bottom of the frame at most (the
\* number of rows of the asset is not in the source).
BitmapBox(h) == <<BitmapX, BitmapY, BitmapX + BitmapWidth - 1, h - 1>>

\* The line's end points, widened by the stroke on every side.
LineBox ==
    <<LineX0 - StrokeWidth, LineY0 - StrokeWidth,
      LineX1 + StrokeWidth, LineY1 + StrokeWidth>>

InBox(b, x, y) == x >= b[1] /\ x <= b[3] /\ y >= b[2] /\ y <= b[4]

\* A drawing call that paints nothing in the frame.
Nowhere == <<-1, -1>>

\* The pixels followed for a drawing call over box b: its corners, its
\* centre, every pixel it shares with the filled rectangle, or none.
Candidates(b) ==
    {<<b[1], b[2]>>, <<b[3], b[2]>>, <<b[1], b[4]>>, <<b[3], b[4]>>,
     <<(b[1] + b[3]) \div 2, (b[2] + b[4]) \div 2>>, Nowhere}
    \cup {q \in (RectBox[1]..RectBox[3]) \X (RectBox[2]..RectBox[4]) :
            InBox(b, q[1], q[2])}

\* fillRectangle: every pixel of the rectangle inside the frame is set to
\* the level whose bit for this plane is b; the other bits of the plane
\* stay.  Bit n of the plane is pixel (n % w, n \div w); byte i holds bits
\* 8 * (i - 1) .. 8 * (i - 1) + 7.
FillBit(plane, w, h, n, b) ==
    IF n < w * h /\ InBox(RectBox, n % w, n \div w)
       THEN b
       ELSE GetBit(plane, n)

RECURSIVE FillByte(_, _, _, _, _, _)
FillByte(plane, w, h, i, j, b) ==
    IF j > 7
       THEN 0
       ELSE FillBit(plane, w, h, 8 * (i - 1) + j, b) * BitMask(j)
            + FillByte(plane, w, h, i, j + 1, b)

FillPlane(plane, w, h, b) ==
    [i \in DOMAIN plane |-> FillByte(plane, w, h, i, 0, b)]

CompInit ==
    /\ MainInit
    /\ fbWidth \in {PanelLong, PanelShort}
    /\ fbHeight = PanelLong + PanelShort - fbWidth
    /\ \E fill \in BlankFills :
          /\ highPlane = BlankPlane(fbWidth, fbHeight, fill)
          /\ lowPlane = BlankPlane(fbWidth, fbHeight, fill)
    /\ fbOps = <<>>

\* One drawing call has painted pixel q with level g.
Painted(op, q, g) ==
    /\ LET r == SetPixel(highPlane, lowPlane, fbWidth, fbHeight, q[1], q[2], g)
       IN  highPlane' = r[1] /\ lowPlane' = r[2]
    /\ fbOps' = Append(fbOps, op)
    /\ UNCHANGED <<mainVars, fbWidth, fbHeight>>

\* Lines 182-193: the glyph run, in black.
FbDrawText ==
    /\ fbOps = <<>>
    /\ \E q \in Candidates(TextBox) : Painted("text", q, GrayBlack)

\* Lines 195-199: the filled rectangle, level 1.
FbFillRect ==
    /\ fbOps = <<"text">>
    /\ highPlane' = FillPlane(highPlane, fbWidth, fbHeight, RectLevel \div 2)
    /\ lowPlane' = FillPlane(lowPlane, fbWidth, fbHeight, RectLevel % 2)
    /\ fbOps' = Append(fbOps, "rect")
    /\ UNCHANGED <<mainVars, fbWidth, fbHeight>>

\* Variant of FbBlitBitmap: the image's origin column is 10, not 100.
FbBlitBitmapAtTen ==
    /\ fbOps = <<"text", "rect">>
    /\ \E q \in Candidates(<<TextX, BitmapY, TextX + BitmapWidth - 1,
                             fbHeight - 1>>),
          g \in Levels : Painted("bitmap", q, g)

\* Lines 201-209: the two-tone image through the binary view of the frame;
\* the level a painted pixel ends with is left open.
FbBlitBitmap ==
    /\ fbOps = <<"text", "rect">>
    /\ \E q \in Candidates(BitmapBox(fbHeight)), g \in Levels :
          Painted("bitmap", q, g)

\* Lines 211-215: the line, in black.
FbDrawLine ==
    /\ fbOps = <<"text", "rect", "bitmap">>
    /\ \E q \in Candidates(LineBox) : Painted("line", q, GrayBlack)

\* Lines 217-224: the two planes are read for the refresh.
FbRender ==
    /\ fbOps = <<"text", "rect", "bitmap", "line">>
    /\ fbOps' = Append(fbOps, "render")
    /\ UNCHANGED <<mainVars, fbWidth, fbHeight, highPlane, lowPlane>>

CompNext ==
    \/ FbDrawText
    \/ FbFillRect
    \/ FbBlitBitmap
    \/ FbDrawLine
    \/ FbRender

ComposeSpec == CompInit /\ [][CompNext]_vars

\* ================================================================ claims
AllDrawn == <<"text", "rect", "bitmap", "line">>

\* ---------------------------------------------------------------- C1
\* C1 as stated: whatever the outcome of the fetch (open, write, flush or
\* read failing, or the deadline passing), the program is never stopped
\* before the compose phase, so the render stays reachable.
C1_SocketErrorsAbsorbed ==
    fetchOutcome # "none" => ~(halted /\ Rank(pc) < 6)

\* C1 amended: a failed read and a passed deadline are absorbed - the program
\* is never stopped by them and goes on to the panel refresh unless a step of
\* the display set-up or a drawing call itself fails; a failed open, write or
\* flush panics: the program stops there, before disconnect, drawing, render.
C1_ReadOutcomesAbsorbed ==
    /\ [](fetchOutcome \in {"ConnectError", "WriteError", "FlushError"}
            => /\ halted
               /\ pc \in {"open", "write", "flush"}
               /\ disconnectCalls = 0
               /\ drawn = <<>>
               /\ renderCalls = 0)
    /\ [](fetchOutcome \in {"ReadError", "Timeout"}
            => ~(halted /\ Rank(pc) < 6))
    /\ (fetchOutcome \in {"ReadError", "Timeout"})
          ~> (renderCalls = 1 \/ (halted /\ pc \in ComposingPcs))

\* C1 witness: a read failed and the panel refresh was still invoked.
C1_Witness ==
    fetchOutcome = "ReadError" /\ renderCalls = 1 /\ lastRes = "ok"
    /\ lastCall = "epd.update_gray2_and_display"

\* ---------------------------------------------------------------- C2
\* C2: every step of main keeps the phase or moves it to the next one of
\* Init, RadioUp, AddressAcquired, Fetching, FetchDone/Timeout, Composing,
\* Rendered, Idle: never back, and never past a phase.
C2_PhaseForward ==
    [][Rank(pc') = Rank(pc) \/ Rank(pc') = Rank(pc) + 1]_vars

\* C2 witness: Idle is reached (through all the phases before it).
C2_Witness == Phase = "Idle" /\ pc = "idle_work"

\* ---------------------------------------------------------------- C3
\* C3: once in Idle the program stays in Idle, each of its steps is a clock
\* reading or a socket.work tick that leaves radio, socket and panel state
\* alone, and ticks keep coming for ever.
C3_IdleTerminal ==
    /\ [][(pc \in IdlePcs) =>
            /\ pc' \in IdlePcs
            /\ lastCall' \in {"socket.work", "Instant.now"}
            /\ UNCHANGED <<halted, radioVars, sockVars, panelVars>>]_vars
    /\ (pc \in IdlePcs) ~> (pc = "idle_check" /\ lastCall = "socket.work")

\* C3 witness: the 5-second period ran out and the outer loop starts over.
C3_Witness ==
    pc = "idle_set_deadline" /\ idleDeadline = IdlePeriodSecs
    /\ now >= idleDeadline

\* ---------------------------------------------------------------- C4
\* C4 as stated: whenever a status check (is_connected) has returned an
\* error, the program is halted.
C4_AnyStatusErrorHalts == connRes = "err" => halted

\* C4 amended: an error returned by is_connected inside the wait loop
\* (lines 102-111) halts the program for good, before address acquisition
\* and before any socket, drawing or panel operation; Ok(false) keeps it
\* polling in place; the result of the one status check after the loop
\* (line 112) is only logged, and the program goes on whatever it is.
C4_PollErrorHalts ==
    /\ [](halted /\ pc = "poll_connected"
            => /\ connRes = "err"
               /\ lastCall = "controller.is_connected"
               /\ statusChecks = pollsNotConnected + 1
               /\ sockPhase = "none" /\ openCalls = 0
               /\ ~panelReady /\ drawn = <<>> /\ renderCalls = 0)
    /\ [][/\ halted => UNCHANGED vars
          /\ (pc = "poll_connected" /\ statusChecks' # statusChecks)
               => /\ connRes' = "err" => (halted' /\ pc' = pc)
                  /\ connRes' = "false" => (~halted' /\ pc' = pc)
                  /\ connRes' = "true" => (~halted' /\ pc' = "log_connected")
          /\ (pc = "log_connected" /\ statusChecks' # statusChecks)
               => (~halted' /\ pc' = "stack_work")]_vars

\* C4 witness: the wait loop polled, got "not connected", then an error.
C4_Witness ==
    halted /\ pc = "poll_connected" /\ pollsNotConnected >= 1

C6_ExactlyNPlusOneChecks ==
    pc \in {"stack_work", "check_iface_up"}
        => statusChecks = pollsNotConnected + 1

\* C6 amended: the wait loop ends after exactly N+1 status checks; one more
\* status check (line 112, result logged) is made before address acquisition
\* starts, N+2 in all; and the program is past address acquisition only if
\* the latest interface check reported up.
C6_NPlusTwoChecks ==
    /\ pc = "log_connected" => statusChecks = pollsNotConnected + 1
    /\ (Rank(pc) >= 2 /\ pc # "log_connected")
         => statusChecks = pollsNotConnected + 2
    /\ Rank(pc) >= 3 => ifaceUp

\* C6 witness: two "not connected" answers, then connected, address acquired.
C6_Witness ==
    pc = "get_socket" /\ pollsNotConnected = 2 /\ statusChecks = 4 /\ ifaceUp

\* ---------------------------------------------------------------- C7
\* C7: if every call returns and the clock keeps advancing, the read loop
\* is left and socket.disconnect is called.
C7_ReadLoopExits ==
    (pc \in {"read", "check_deadline"}) ~> (disconnectCalls = 1)

\* C7 witness: the loop was left because the clock passed the deadline.
C7_Witness ==
    fetchOutcome = "Timeout" /\ now > deadline /\ disconnectCalls = 1

\* ---------------------------------------------------------------- C8
\* C8: socket operations come in the order open, write, flush, reads,
\* disconnect; open is called at most once and on the idle socket; after
\* disconnect no open, write, flush or read is called.
C8_SocketLifecycle ==
    /\ [](openCalls <= 1 /\ disconnectCalls <= 1)
    /\ [](sockPhase = "open" => openCalls = 1)
    /\ [][/\ lastCall' = "socket.open"
               => (lastSockOp = "none" /\ sockPhase = "idle" /\ openCalls = 0)
          /\ lastCall' = "socket.write" => lastSockOp = "open"
          /\ lastCall' = "socket.flush" => lastSockOp = "write"
          /\ lastCall' = "socket.read" => lastSockOp \in {"flush", "read"}
          /\ lastCall' = "socket.disconnect"
               => lastSockOp \in {"flush", "read"}
          /\ lastCall' \in SocketCalls
               => (sockPhase # "closed" /\ lastSockOp # "disconnect")]_vars

\* C8 witness: the socket went through its whole life and the idle loop runs.
C8_Witness ==
    sockPhase = "closed" /\ lastSockOp = "disconnect" /\ openCalls = 1
    /\ pc = "idle_check" /\ lastCall = "socket.work"

\* ---------------------------------------------------------------- C9
\* C9: an error from the panel's construction, its initialization or the
\* refresh halts the program for good at that statement: the refresh is
\* called at most once, nothing is drawn after a failed initialization, and
\* Idle is not reached.
C9_PanelErrorFatal ==
    /\ [](renderCalls <= 1)
    /\ [](halted /\ pc \in {"epd_new", "epd_begin"}
            => (renderCalls = 0 /\ drawn = <<>> /\ ~panelReady))
    /\ [](halted /\ pc = "render"
            => (renderCalls = 1 /\ drawn = AllDrawn /\ lastRes = "err"))
    /\ [][/\ halted => UNCHANGED vars
          /\ (pc \in {"epd_new", "epd_begin", "render"} /\ lastRes' = "err")
               => (halted' /\ pc' = pc)]_vars

\* C9 witness: the refresh reported an error.
C9_Witness == halted /\ pc = "render" /\ renderCalls = 1

\* ---------------------------------------------------------------- C10
\* C10: open and the refresh are each called at most once; in Idle each was
\* called exactly once; the refresh is called with the panel initialized and
\* text, rectangle, bitmap, line drawn in this order; nothing is drawn after.
C10_OneFetchOneRender ==
    /\ [](openCalls <= 1 /\ renderCalls <= 1)
    /\ [](pc \in IdlePcs => (openCalls = 1 /\ renderCalls = 1))
    /\ [](renderCalls >= 1 => (panelReady /\ drawn = AllDrawn))
    /\ [][renderCalls >= 1 => drawn' = drawn]_vars

\* C10 witness: Idle after the one refresh.
C10_Witness ==
    pc = "idle_set_deadline" /\ renderCalls = 1 /\ drawn = AllDrawn

\* ---------------------------------------------------------------- C12
\* C12 as stated: whenever main calls read again after a read, it has called
\* a work-advance function (stack.work or socket.work) since that read.
C12_WorkBetweenReads ==
    [][(lastCall' = "socket.read" /\ lastSockOp = "read")
          => workSinceSockOp]_vars

\* C12 amended: main calls no work-advance function between two consecutive
\* reads: the one thing it does between them is the clock reading of the
\* deadline check.  It calls work only while the socket is not open: before
\* open (line 132) and in the idle loop (line 231).
C12_NoWorkBetweenReads ==
    /\ [](pc \in {"read", "check_deadline"} => ~workSinceSockOp)
    /\ [][/\ (lastCall' = "socket.read" /\ lastSockOp = "read")
               => (lastCall = "Instant.now" /\ ~workSinceSockOp)
          /\ lastCall' \in WorkCalls => sockPhase # "open"]_vars

\* C12 witness: a read, the deadline check after some time, a second read.
C12_Witness ==
    pc = "check_deadline" /\ lastCall = "socket.read" /\ now > 0
    /\ ~workSinceSockOp

\* ---------------------------------------------------------------- C13
\* C13 as stated: when main calls write, it has advanced the work unit since
\* open returned (the handshake that open has begun completes only through
\* work ticks, so this is what "established at the time of write" asks of
\* main).
C13_WorkBeforeWrite ==
    [][lastCall' = "socket.write" => workSinceSockOp]_vars

\* C13 amended: main calls write directly after open has returned Ok, and
\* flush directly after write has returned Ok, with no work-advance call in
\* between: main itself does not wait for the handshake.
C13_WriteFollowsOpen ==
    [][/\ lastCall' = "socket.write"
            => /\ lastCall = "socket.open" /\ lastRes = "ok"
               /\ sockPhase = "open"
               /\ ~workSinceSockOp
       /\ lastCall' = "socket.flush"
            => /\ lastCall = "socket.write" /\ lastRes = "ok"
               /\ ~workSinceSockOp]_vars

\* C13 witness: write was called and accepted.
C13_Witness ==
    lastCall = "socket.write" /\ lastRes = "ok" /\ pc = "flush"

\* ---------------------------------------------------------------- C14
\* C14 as stated: the credentials are applied only after the scan.
C14_ScanBeforeCredentials ==
    configRes # "none" => scanRes = "ok"

\* C14 amended: bring-up goes: power saving disabled, then the client
\* credentials applied, then the radio started, then the scan of at most 10
\* access points, then the connection requested; the request follows every
\* successful scan, whatever the list holds, the empty list included.
C14_BringUpOrder ==
    /\ [](scanCount <= ScanMax)
    /\ []((scanRes = "ok" /\ pc \notin {"scan", "connect"})
             => connectRes # "none")
    /\ [][/\ lastCall' = "controller.set_config"
               => /\ lastCall = "controller.set_power_saving"
                  /\ lastRes = "ok"
                  /\ scanRes = "none"
          /\ lastCall' = "controller.start" => configRes # "none"
          /\ lastCall' = "controller.scan"
               => /\ lastCall = "controller.start" /\ lastRes = "ok"
                  /\ configRes # "none" /\ connectRes = "none"
          /\ lastCall' = "controller.connect"
               => /\ lastCall = "controller.scan"
                  /\ scanRes = "ok" /\ scanCount \in 0..ScanMax
          /\ (pc = "scan" /\ scanRes' = "ok") => pc' = "connect"]_vars

\* C14 witness: the scan found nothing and the connection was requested.
C14_Witness ==
    scanRes = "ok" /\ scanCount = 0 /\ lastCall = "controller.connect"

\* ---------------------------------------------------------------- C15
\* C15: main is past address acquisition (socket creation, fetch, ...) only
\* if the wait loop saw "connected" and the latest interface check, made
\* after that, reported up; each interface check directly follows a
\* stack.work tick, and a check that reports "not up" leads back to the tick.
C15_AddressOnlyWhenUp ==
    /\ [](Rank(pc) >= 3 => (pollSawConnected /\ ifaceUp))
    /\ [](lastCall = "stack.is_iface_up" => pollSawConnected)
    /\ [][/\ lastCall' = "stack.is_iface_up" => lastCall = "stack.work"
          /\ (pc = "check_iface_up" /\ lastCall' = "stack.is_iface_up")
               => pc' = IF ifaceUp' THEN "get_socket" ELSE "stack_work"]_vars

\* C15 witness: the interface was reported down, the loop goes round.
C15_Witness ==
    pc = "stack_work" /\ lastCall = "stack.is_iface_up" /\ ~ifaceUp

\* ---------------------------------------------------------------- C16
\* C16: the deadline is set once, after flush and before the first read, and
\* stays as it is while the loop runs; a check that finds the clock past it
\* ends the loop with no further read and leaves the connection as it is; a
\* check that finds the clock not past it leads to the next read, after an
\* empty read too; the connection is closed by the one disconnect call only,
\* which follows the loop whichever way it ended.
C16_DeadlineOnce ==
    /\ [](disconnectCalls <= 1)
    /\ []((fetchOutcome \in {"Timeout", "ReadError"} /\ pc # "disconnect")
             => (disconnectCalls = 1 /\ sockPhase = "closed"))
    /\ [][/\ (pc \in {"read", "check_deadline"}) => deadline' = deadline
          /\ deadline' # deadline
               => (pc = "set_deadline" /\ lastSockOp = "flush")
          /\ (pc = "check_deadline" /\ lastCall' = "Instant.now")
               => /\ pc' = IF now' > deadline THEN "disconnect" ELSE "read"
                  /\ sockPhase' = sockPhase
          /\ (pc = "check_deadline" /\ readLen = 0 /\ now' <= deadline
                 /\ lastCall' = "Instant.now")
               => pc' = "read"
          /\ fetchOutcome = "Timeout" => lastCall' # "socket.read"
          /\ sockPhase' # sockPhase /\ sockPhase' = "closed"
               => (pc = "disconnect" /\ lastCall' = "socket.disconnect")]_vars

\* C16 witness: an empty read came back after time has passed, before the
\* deadline.
C16_Witness ==
    pc = "check_deadline" /\ readLen = 0 /\ now > 0 /\ now <= deadline

\* ---------------------------------------------------------------- C11
\* C11: on every frame content, writing level G to an in-bounds pixel and
\* reading the pixel back as 2 * high bit + low bit gives G, and every other
\* pixel reads as before.
C11_WriteReadBack ==
    \A x \in 0..(fbWidth - 1), y \in 0..(fbHeight - 1), g \in Levels :
        LET r == SetPixel(highPlane, lowPlane, fbWidth, fbHeight, x, y, g)
        IN  /\ LevelAt(r[1], r[2], fbWidth, x, y) = g
            /\ \A qx \in 0..(fbWidth - 1), qy \in 0..(fbHeight - 1) :
                 <<qx, qy>> # <<x, y>>
                   => LevelAt(r[1], r[2], fbWidth, qx, qy)
                        = LevelAt(highPlane, lowPlane, fbWidth, qx, qy)

\* C11 witness: two pixels written, one in each byte of the planes, with
\* levels whose high and low bits differ.
C11_Witness ==
    /\ Len(fbOps) = 2
    /\ fbWidth = PixWidth
    /\ LevelAt(highPlane, lowPlane, fbWidth, 0, 0) = 1
    /\ LevelAt(highPlane, lowPlane, fbWidth, PixWidth - 1, PixHeight - 1) = 2

\* ---------------------------------------------------------------- C17
\* C17: once the four drawing calls have run in order and the planes are
\* read for the refresh, every pixel of the rectangle (50..74, 50..74) reads
\* level 1; and from the fill on, no later call changes a pixel of it.
C17_RectKeepsLevel ==
    (Len(fbOps) >= 2)
      => \A x \in RectX..(RectX + RectW - 1), y \in RectY..(RectY + RectH - 1) :
           LevelAt(highPlane, lowPlane, fbWidth, x, y) = RectLevel

\* C17 witness: a frame that was blank on the lightest level is read for the
\* refresh with the text, the image and the line each having painted a pixel
\* of it, and a corner of the rectangle on level 1.
C17_Witness ==
    /\ fbOps = <<"text", "rect", "bitmap", "line", "render">>
    /\ LevelAt(highPlane, lowPlane, fbWidth, 0, 0) = 3
    /\ LevelAt(highPlane, lowPlane, fbWidth, TextBox[1], TextBox[2]) = GrayBlack
    /\ LevelAt(highPlane, lowPlane, fbWidth, BitmapX, BitmapY) = 2
    /\ LevelAt(highPlane, lowPlane, fbWidth, LineBox[3], LineBox[4]) = GrayBlack
    /\ LevelAt(highPlane, lowPlane, fbWidth, RectBox[3], RectBox[4]) = RectLevel

====
